---------------------------- MODULE Spec2Model ----------------------------
(***************************************************************************)
(* Model of the skynet-application client library:                         *)
(*   - utils/buffer.py           Buffer (overwrite buffer on a queue.Queue)*)
(*   - synchronization/simple.py SimpleServicesSynchronizer                *)
(*   - types.py                  Message / Header encoding and decoding,   *)
(*                               SkynetServiceSub worker and accessors,    *)
(*                               SkynetServicePub setters and worker       *)
(*   - proxy/application.py      SkynetApplication.expose                  *)
(* Each component has its own specification over the shared variables:     *)
(*   SpecBuffer  one writer thread and one reader thread on one Buffer     *)
(*   SpecSync    NumServices subscriber workers feeding one synchronizer   *)
(*   SpecSub     one SkynetServiceSub: worker thread and application        *)
(*   SpecSubQueue  the same with any queue size, pulls through .message     *)
(*   SpecLast    one SkynetServiceSub: worker thread and a caller of .last  *)
(*   SpecInteract  threads in SkynetInteraction.send beside a pull-mode     *)
(*               SkynetServiceSub                                           *)
(*   SpecPub     one SkynetServicePub: application, worker thread, broker   *)
(*   SpecDecode  calls of Message.deserialize on arbitrary frames           *)
(*   SpecExpose  services constructed against SkynetApplication.services    *)
(***************************************************************************)
EXTENDS Naturals, Sequences, FiniteSets

(* ------------------------------ bounds -------------------------------- *)
\* largest Buffer capacity tried (Buffer.__init__ size)
MaxSize == 2
\* number of push calls the writer thread makes
MaxPush == 4
\* number of pop calls the reader thread makes
MaxPop == 3
\* number of subscriber streams joined by the synchronizer
NumServices == 3
\* number of messages each stream delivers
MaxMsgs == 3
\* number of replies the subscriber worker receives
MaxRecv == 3
\* number of values the application sets on the publisher
MaxSet == 3
\* number of services the application constructs
MaxServices == 4
\* number of threads that call SkynetInteraction.send
NumSenders == 2

(* ------------------------- program constants -------------------------- *)
\* "self._buffer: Buffer[Tuple[Any, ...]] = Buffer(size=1)"
SyncBufferSize == 1
\* SkynetService.QUEUE_SIZE, used when no queue_size is given
QUEUE_SIZE == 1

(* --------------------------- generic helpers -------------------------- *)
Range(s) == {s[i] : i \in 1..Len(s)}

Last(s) == s[Len(s)]

\* a is b with some elements left out
RECURSIVE IsSubsequence(_, _)
IsSubsequence(a, b) ==
    IF a = <<>> THEN TRUE
    ELSE IF b = <<>> THEN FALSE
    ELSE IF Head(a) = Head(b) THEN IsSubsequence(Tail(a), Tail(b))
    ELSE IsSubsequence(a, Tail(b))

(* ===================================================================== *)
(*  utils/buffer.py : Buffer                                              *)
(* ===================================================================== *)
VARIABLES
    bSize,      \* Buffer._size / Queue maxsize
    bQueue,     \* Buffer._queue contents, oldest first
    bLock,      \* Buffer._lock is held
    wpc,        \* writer thread position inside push
    wItem,      \* the item the writer is pushing
    wRet,       \* outcome of the last push call
    pushedSeq,  \* history: items whose push call has returned, in order
    rpc,        \* reader thread position inside pop
    rMode,      \* arguments of the pop call in progress
    rOut,       \* outcome of the last pop call
    popCalls,   \* history: number of pop calls made
    poppedSeq   \* history: items returned by pop, in order

bufVars == <<bSize, bQueue, bLock, wpc, wItem, wRet, pushedSeq,
             rpc, rMode, rOut, popCalls, poppedSeq>>

VARIABLES
    sCallback,         \* self._callback is not None
    sMessageCallback,  \* self._message_callback
    sPartial,          \* self._partial: list of slots
    sCounter,          \* self._counter
    sBuffer,           \* self._buffer (Buffer(size=1)) contents
    sAlive,            \* per stream: its subscriber worker thread still runs
    sDelivered,        \* history: per stream, messages handed to _internal_callback
    sSince,            \* history: the same, counted since the last emission
    sLast,             \* history: per stream, the last message it delivered
    sEmits,            \* history: joined tuples emitted (callback or buffer)
    sArrival,          \* history: streams in the order of their first message
    sGen,              \* generator of .messages / __iter__ held by the application
    sOut,              \* outcome of the application's last pull access
    sPulled            \* history: tuples removed from the buffer by pull accesses

syncVars == <<sCallback, sMessageCallback, sPartial, sCounter, sBuffer, sAlive,
              sDelivered, sSince, sLast, sEmits, sArrival, sGen, sOut, sPulled>>

VARIABLES
    uSize,             \* capacity of the subscriber's Buffer (queue_size or QUEUE_SIZE)
    uCallback,         \* self._callback is not None
    uMessageCallback,  \* self._message_callback
    uChangesOnly,      \* self._changes_only
    uLast,             \* self._last (NOTHING is <<>>)
    uLastRaw,          \* self._last_raw (b"" is <<>>)
    uBuffer,           \* self._buffer contents
    uPc,               \* worker thread position in _work
    uHeader,           \* _work local: header frame of the reply
    uPayload,          \* _work local: payload frame of the reply
    uMsg,              \* _work local: msg
    uRecv,             \* history: number of replies received
    uHandled,          \* history: per decoded message, its payload and delivery
    aPc,               \* application thread position in register_callback
    uGen,              \* generator of .messages / __iter__ held by the application
    uOut,              \* outcome of the application's last pull access
    uPulled,           \* history: messages removed from the buffer by pull accesses
    lPc,               \* position of the thread that calls .last
    lOut,              \* what .last returned (<<>>: not yet)
    uLock              \* the worker holds the lock of self._buffer

subVars == <<uSize, uCallback, uMessageCallback, uChangesOnly, uLast, uLastRaw,
             uBuffer, uPc, uHeader, uPayload, uMsg, uRecv, uHandled,
             aPc, uGen, uOut, uPulled, lPc, lOut, uLock>>

VARIABLES
    pSize,             \* capacity of the publisher's Buffer (queue_size or QUEUE_SIZE)
    pBuffer,           \* self._buffer contents
    aSetPc,            \* application thread position inside the setter's push
    pSet,              \* history: items given to the setters, in order
    pPc,               \* worker thread position in _work
    pData,             \* _work local: data
    pReq,              \* the request frames on their way to the broker
    pAck,              \* an acknowledgement is on its way to the worker
    pSent,             \* history: messages sent and their frames, in order
    pAcked             \* history: number of acknowledgements received

pubVars == <<pSize, pBuffer, aSetPc, pSet, pPc, pData, pReq, pAck, pSent, pAcked>>

VARIABLES
    dPc,               \* position inside a call of Message.deserialize
    dHeader,           \* argument header (a frame)
    dPayload,          \* argument payload (a frame)
    dOut,              \* what the call returned or raised (<<>>: not yet)
    dLoads             \* history: the frames the call gave to cbor2.loads

decVars == <<dPc, dHeader, dPayload, dOut, dLoads>>

VARIABLES
    services,          \* SkynetApplication.services: (type value, name) -> service
    created,           \* history: number of services constructed (or tried)
    construction,      \* history: the last construction and how it ended
    nodeReply          \* what the last Node.call returned

appRegVars == <<services, created, construction, nodeReply>>

VARIABLES
    iLock,             \* SkynetInteraction._lock: the sender that holds it (0: free)
    iPc                \* per sender: its position inside send

interactVars == <<iLock, iPc>>

notBufVars == <<syncVars, subVars, pubVars, decVars, appRegVars, interactVars>>

notSyncVars == <<bufVars, subVars, pubVars, decVars, appRegVars, interactVars>>

notSubVars == <<bufVars, syncVars, pubVars, decVars, appRegVars, interactVars>>

notPubVars == <<bufVars, syncVars, subVars, decVars, appRegVars, interactVars>>

notDecVars == <<bufVars, syncVars, subVars, pubVars, appRegVars, interactVars>>

notAppRegVars == <<bufVars, syncVars, subVars, pubVars, decVars, interactVars>>

notInteractVars == <<bufVars, syncVars, subVars, pubVars, decVars, appRegVars>>

\* pop(block=True, timeout=None), pop(block=False), pop(block=True, timeout=t)
PopModes == {"block", "nonblock", "timeout"}

\* queue.Queue.put(data, block=False): Full when qsize >= maxsize
QueuePutFront(q, n, x) ==
    IF Len(q) < n THEN [full |-> FALSE, q |-> <<x>> \o q]
                  ELSE [full |-> TRUE, q |-> q]

QueuePut(q, n, x) ==
    IF Len(q) < n THEN [full |-> FALSE, q |-> Append(q, x)]
                  ELSE [full |-> TRUE, q |-> q]

\* queue.Queue.get(block=False): Empty when the queue holds nothing
QueueGet(q) ==
    IF Len(q) > 0 THEN [empty |-> FALSE, item |-> <<Head(q)>>, q |-> Tail(q)]
                  ELSE [empty |-> TRUE, item |-> <<>>, q |-> q]

\* A pop outcome: kind "value" carries the item in val, "none" is Python's
\* None, "raise" an exception leaving pop.
PopValue(x) == [kind |-> "value", val |-> <<x>>]

PopRaises == [kind |-> "raise", val |-> <<>>]

\* Buffer.pop: "except Empty: return None"
PopOnEmpty == [kind |-> "none", val |-> <<>>]

BufferInit ==
    /\ bSize \in 1..MaxSize
    /\ bQueue = <<>>
    /\ bLock = FALSE
    /\ wpc = "idle"
    /\ wItem = 0
    /\ wRet = "none"
    /\ pushedSeq = <<>>
    /\ rpc = "idle"
    /\ rMode = "block"
    /\ rOut = PopOnEmpty
    /\ popCalls = 0
    /\ poppedSeq = <<>>

\* push: "with self._lock:" entered; items are numbered in push order
PushAcquire ==
    /\ UNCHANGED notBufVars
    /\ wpc = "idle"
    /\ ~bLock
    /\ Len(pushedSeq) < MaxPush
    /\ bLock' = TRUE
    /\ wpc' = "put"
    /\ wItem' = Len(pushedSeq) + 1
    /\ UNCHANGED <<bSize, bQueue, wRet, pushedSeq, rpc, rMode, rOut, popCalls, poppedSeq>>

\* push: the writer leaves the with-block and push returns
PushReturn(q, ret) ==
    /\ bQueue' = q
    /\ bLock' = FALSE
    /\ wpc' = "idle"
    /\ wRet' = ret
    /\ pushedSeq' = Append(pushedSeq, wItem)
    /\ UNCHANGED <<bSize, wItem, rpc, rMode, rOut, popCalls, poppedSeq>>

\* push: "self._queue.put(data, block=False)" / "except Full:"
PushPutBlocking ==
    /\ UNCHANGED notBufVars
    /\ wpc = "put"
    /\ Len(bQueue) < bSize
    /\ PushReturn(Append(bQueue, wItem), "none")

PushPut ==
    /\ UNCHANGED notBufVars
    /\ wpc = "put"
    /\ LET r == QueuePut(bQueue, bSize, wItem) IN
         IF r.full
         THEN /\ wpc' = "evict"
              /\ UNCHANGED <<bSize, bQueue, bLock, wItem, wRet, pushedSeq,
                             rpc, rMode, rOut, popCalls, poppedSeq>>
         ELSE PushReturn(r.q, "none")

\* push: "return self._queue.get(block=False)" / "except Empty: pass"
PushEvict ==
    /\ UNCHANGED notBufVars
    /\ wpc = "evict"
    /\ LET r == QueueGet(bQueue) IN
         IF r.empty
         THEN /\ wpc' = "again"
              /\ UNCHANGED <<bSize, bQueue, bLock, wItem, wRet, pushedSeq,
                             rpc, rMode, rOut, popCalls, poppedSeq>>
         ELSE PushReturn(r.q, "evicted")

\* push: the second "self._queue.put(data, block=False)"
PushAgain ==
    /\ UNCHANGED notBufVars
    /\ wpc = "again"
    /\ LET r == QueuePut(bQueue, bSize, wItem) IN
         IF r.full THEN PushReturn(bQueue, "raise")
                   ELSE PushReturn(r.q, "none")

\* the reader's pop returns `out`, leaving the queue as q
PopReturn(q, out) ==
    /\ bQueue' = q
    /\ rpc' = "idle"
    /\ rOut' = out
    /\ poppedSeq' = IF out.kind = "value" THEN poppedSeq \o out.val ELSE poppedSeq
    /\ UNCHANGED <<bSize, bLock, wpc, wItem, wRet, pushedSeq, rMode>>

\* pop(block, timeout) is called: a non-blocking get answers at once, the
\* others wait on the queue
PopCall(mode) ==
    /\ UNCHANGED notBufVars
    /\ rpc = "idle"
    /\ popCalls < MaxPop
    /\ popCalls' = popCalls + 1
    /\ IF mode = "nonblock"
       THEN LET r == QueueGet(bQueue) IN
              /\ rMode' = mode
              /\ bQueue' = r.q
              /\ rpc' = "idle"
              /\ rOut' = IF r.empty THEN PopOnEmpty ELSE PopValue(r.item[1])
              /\ poppedSeq' = poppedSeq \o r.item
              /\ UNCHANGED <<bSize, bLock, wpc, wItem, wRet, pushedSeq>>
       ELSE /\ rpc' = "waiting"
            /\ rMode' = mode
            /\ UNCHANGED <<bSize, bQueue, bLock, wpc, wItem, wRet, pushedSeq,
                           rOut, poppedSeq>>

\* Queue.get(block=True): an item is there, the waiting get takes it
PopTake ==
    /\ UNCHANGED notBufVars
    /\ rpc = "waiting"
    /\ Len(bQueue) > 0
    /\ UNCHANGED popCalls
    /\ PopReturn(Tail(bQueue), PopValue(Head(bQueue)))

\* Queue.get(block=True, timeout=t): the wait runs out with the queue empty
PopTimeout ==
    /\ UNCHANGED notBufVars
    /\ rpc = "waiting"
    /\ rMode = "timeout"
    /\ Len(bQueue) = 0
    /\ UNCHANGED popCalls
    /\ PopReturn(bQueue, PopOnEmpty)

(* ===================================================================== *)
(*  synchronization/simple.py : SimpleServicesSynchronizer                *)
(*  Streams are numbered 1..NumServices here (0..N-1 in the source); an    *)
(*  Optional value is a sequence of length 0 (None) or 1.                  *)
(* ===================================================================== *)

Services == 1..NumServices

\* Message(timestamp, data): the k-th message of stream i
StreamMessage(i, k) == [timestamp |-> k, data |-> <<i, k>>]

\* "[None] * len(self._services)"
EmptySlots == [i \in Services |-> <<>>]

\* "tuple((m if self._message_callback else m.data) for m in self._partial)"
\* and "tuple(self._partial)": the slot values in list order
JoinedTupleReversed(partial, asMessage) ==
    [j \in 1..Len(partial) |->
        LET slot == partial[Len(partial) + 1 - j] IN
        IF asMessage THEN slot ELSE <<slot[1].data>>]

JoinedTuple(partial, asMessage) ==
    [j \in 1..Len(partial) |->
        IF asMessage THEN partial[j] ELSE <<partial[j][1].data>>]

\* "self._counter == len(self._services)"
RoundCompleteEarly(counter) == counter >= NumServices - 1

RoundComplete(counter) == counter = NumServices

\* "int(self._partial[index] is None)"
SlotIncrementAlways(slot) == 1

SlotIncrement(slot) == IF slot = <<>> THEN 1 ELSE 0

\* Buffer.push run to its end with no pop in between: put, or on Full evict
\* the oldest and return
BufferPush(q, n, x) ==
    LET p == QueuePut(q, n, x) IN
    IF p.full THEN QueueGet(q).q ELSE p.q

\* pull accessors of the synchronizer and of the subscriber
Accessors == {"message", "value", "messages", "iter"}

\* outcomes of a pull access (NoAccess: none made yet)
NoAccess == "idle"

AccessRaises == "raise"

AccessGenerator == "generator"

AccessValue == "value"

SyncInit(callback, messageCallback) ==
    /\ sCallback = callback
    /\ sMessageCallback = messageCallback
    /\ sPartial = EmptySlots
    /\ sCounter = 0
    /\ sBuffer = <<>>
    /\ sAlive = [i \in Services |-> TRUE]
    /\ sDelivered = [i \in Services |-> 0]
    /\ sSince = [i \in Services |-> 0]
    /\ sLast = EmptySlots
    /\ sEmits = <<>>
    /\ sArrival = <<>>
    /\ sGen = "none"
    /\ sOut = NoAccess
    /\ sPulled = <<>>

\* _internal_callback(index, msg: Message), run by the worker of stream
\* `index` under self._lock; an exception leaves the with-block and ends
\* that worker
InternalCallback(index) ==
    /\ UNCHANGED notSyncVars
    /\ sAlive[index]
    /\ sDelivered[index] < MaxMsgs
    /\ LET msg == StreamMessage(index, sDelivered[index] + 1) IN
       /\ sDelivered' = [sDelivered EXCEPT ![index] = @ + 1]
       /\ sLast' = [sLast EXCEPT ![index] = <<msg>>]
       /\ sArrival' = IF sDelivered[index] = 0 THEN Append(sArrival, index) ELSE sArrival
       /\ IF index > Len(sPartial)
          THEN \* IndexError: list index out of range
               /\ sAlive' = [sAlive EXCEPT ![index] = FALSE]
               /\ sSince' = [sSince EXCEPT ![index] = @ + 1]
               /\ UNCHANGED <<sPartial, sCounter, sBuffer, sEmits>>
          ELSE LET counter == sCounter + SlotIncrement(sPartial[index])
                   partial == [sPartial EXCEPT ![index] = <<msg>>]
               IN IF RoundComplete(counter)
                  THEN IF sCallback
                       THEN IF ~sMessageCallback /\ \E j \in 1..Len(partial) : partial[j] = <<>>
                            THEN \* AttributeError: None has no attribute data
                                 /\ sAlive' = [sAlive EXCEPT ![index] = FALSE]
                                 /\ sSince' = [sSince EXCEPT ![index] = @ + 1]
                                 /\ sPartial' = partial
                                 /\ sCounter' = counter
                                 /\ UNCHANGED <<sBuffer, sEmits>>
                            ELSE /\ sEmits' = Append(sEmits, JoinedTuple(partial, sMessageCallback))
                                 /\ sPartial' = <<>>
                                 /\ sCounter' = 0
                                 /\ sSince' = [i \in Services |-> 0]
                                 /\ UNCHANGED <<sBuffer, sAlive>>
                       ELSE /\ sEmits' = Append(sEmits, JoinedTuple(partial, TRUE))
                            /\ sBuffer' = BufferPush(sBuffer, SyncBufferSize,
                                                     JoinedTuple(partial, TRUE))
                            /\ sPartial' = <<>>
                            /\ sCounter' = 0
                            /\ sSince' = [i \in Services |-> 0]
                            /\ UNCHANGED sAlive
                  ELSE /\ sPartial' = partial
                       /\ sCounter' = counter
                       /\ sSince' = [sSince EXCEPT ![index] = @ + 1]
                       /\ UNCHANGED <<sBuffer, sAlive, sEmits>>
    /\ UNCHANGED <<sCallback, sMessageCallback, sGen, sOut, sPulled>>

\* _assert_no_callback
SyncAssertNoCallback == ~sCallback

\* .message and .value: _assert_no_callback(), then a blocking pop; the
\* tuple popped is recorded in sPulled (.value returns the data of each)
SyncAccessMessage(acc) ==
    /\ UNCHANGED notSyncVars
    /\ acc \in {"message", "value"}
    /\ IF ~SyncAssertNoCallback
       THEN sOut' = AccessRaises /\ UNCHANGED <<sBuffer, sPulled>>
       ELSE /\ Len(sBuffer) > 0
            /\ sBuffer' = Tail(sBuffer)
            /\ sPulled' = Append(sPulled, Head(sBuffer))
            /\ sOut' = AccessValue
    /\ UNCHANGED <<sCallback, sMessageCallback, sPartial, sCounter, sAlive,
                   sDelivered, sSince, sLast, sEmits, sArrival, sGen>>

\* .messages and __iter__ are generator functions: the access returns a new
\* generator object and runs none of the body
SyncAccessGenerator(acc) ==
    /\ UNCHANGED notSyncVars
    /\ acc \in {"messages", "iter"}
    /\ sGen' = "fresh"
    /\ sOut' = AccessGenerator
    /\ UNCHANGED <<sCallback, sMessageCallback, sPartial, sCounter, sBuffer, sAlive,
                   sDelivered, sSince, sLast, sEmits, sArrival, sPulled>>

\* next() on the generator: the first one runs _assert_no_callback(), each
\* one runs the loop body up to the yield (a blocking pop)
SyncGeneratorNext ==
    /\ UNCHANGED notSyncVars
    /\ sGen \in {"fresh", "running"}
    /\ IF sGen = "fresh" /\ ~SyncAssertNoCallback
       THEN sOut' = AccessRaises /\ sGen' = "none" /\ UNCHANGED <<sBuffer, sPulled>>
       ELSE /\ Len(sBuffer) > 0
            /\ sBuffer' = Tail(sBuffer)
            /\ sPulled' = Append(sPulled, Head(sBuffer))
            /\ sGen' = "running"
            /\ sOut' = AccessValue
    /\ UNCHANGED <<sCallback, sMessageCallback, sPartial, sCounter, sAlive,
                   sDelivered, sSince, sLast, sEmits, sArrival>>

(* ===================================================================== *)
(*  types.py : Header, Message, SkynetServiceSub                          *)
(*  A frame is the CBOR item its bytes hold: a map (with the keys it has), *)
(*  another well-formed item, or bytes that are no CBOR item at all.       *)
(*  Equal frames are equal byte strings.                                   *)
(* ===================================================================== *)

\* payload values sent by publishers
Data == {"x", "y"}

\* header frames a reply may carry
HeaderFrames ==
    { [kind |-> "map", keys |-> {"timestamp", "version"}, timestamp |-> 1000, version |-> "1.0"],
      [kind |-> "map", keys |-> {"version"}, timestamp |-> 0, version |-> "1.0"],
      [kind |-> "map", keys |-> {"timestamp", "version", "extra"}, timestamp |-> 1000, version |-> "1.0"],
      [kind |-> "garbage", keys |-> {}, timestamp |-> 0, version |-> ""] }

\* payload frames a reply may carry
PayloadFrames ==
    { [kind |-> "map", keys |-> {"data", "version"}, data |-> d, version |-> "1.0"] : d \in Data }
    \cup
    { [kind |-> "map", keys |-> {"data", "version"}, data |-> "x", version |-> "2.0"],
      [kind |-> "map", keys |-> {"data"}, data |-> "x", version |-> ""],
      [kind |-> "map", keys |-> {"version"}, data |-> "", version |-> "1.0"],
      [kind |-> "map", keys |-> {"data", "version", "extra"}, data |-> "x", version |-> "1.0"],
      [kind |-> "int", keys |-> {}, data |-> "", version |-> ""],
      [kind |-> "garbage", keys |-> {}, data |-> "", version |-> ""] }

\* results of a decode: an object, None, or an exception leaving the call
Decoded(x) == [kind |-> "ok", val |-> <<x>>, exc |-> ""]

DecodedNone == [kind |-> "none", val |-> <<>>, exc |-> ""]

DecodeRaises(e) == [kind |-> "raise", val |-> <<>>, exc |-> e]

\* Header.deserialize: cls(**cbor2.loads(raw)), TypeError and ValueError
\* give None. The dataclass takes timestamp (required) and version only;
\* cbor2.loads raises a ValueError on bytes that are no CBOR item.
HeaderDeserialize(raw) ==
    IF raw.kind = "garbage" THEN DecodedNone
    ELSE IF raw.kind # "map" THEN DecodedNone
    ELSE IF ~(raw.keys \subseteq {"timestamp", "version"}) THEN DecodedNone
    ELSE IF "timestamp" \notin raw.keys THEN DecodedNone
    ELSE Decoded([timestamp |-> raw.timestamp,
                  version |-> IF "version" \in raw.keys THEN raw.version ELSE "1.0"])

\* "assert d.pop("version", None) == "1.0"" failing: the except clause
\* below it catches TypeError and ValueError only
VersionAssert(d) == DecodeRaises("AssertionError")

\* Message.deserialize(header, payload)
MessageDeserialize(header, payload) ==
    LET h == HeaderDeserialize(header) IN
    IF h.kind = "none" THEN DecodedNone
    ELSE IF payload.kind = "garbage" THEN DecodedNone
    ELSE IF payload.kind # "map" THEN DecodeRaises("AttributeError")
    ELSE IF ~("version" \in payload.keys /\ payload.version = "1.0") THEN VersionAssert(payload)
    ELSE IF payload.keys \ {"version"} # {"data"} THEN DecodedNone
    ELSE Decoded([header |-> h.val[1], data |-> payload.data])

SubInitWith(sizes) ==
    /\ uSize \in sizes
    /\ uCallback \in BOOLEAN
    /\ uMessageCallback \in BOOLEAN
    /\ uChangesOnly \in BOOLEAN
    /\ uLast = <<>>
    /\ uLastRaw = <<>>
    /\ uBuffer = <<>>
    /\ uPc = "send"
    /\ uHeader = <<>>
    /\ uPayload = <<>>
    /\ uMsg = <<>>
    /\ uRecv = 0
    /\ uHandled = <<>>
    /\ aPc = "idle"
    /\ uGen = "none"
    /\ uOut = NoAccess
    /\ uPulled = <<>>
    /\ lPc = "idle"
    /\ lOut = <<>>
    /\ uLock = FALSE

\* a subscriber constructed without queue_size
SubInit == SubInitWith({QUEUE_SIZE})

\* the subscriber as left by a specification that does not run it
SubIdle ==
    /\ SubInit
    /\ ~uCallback /\ ~uMessageCallback /\ ~uChangesOnly

appVars == <<aPc, uGen, uOut, uPulled>>

lastVars == <<lPc, lOut>>

\* self._event_new_message (a MonitoredCondition) as a condition variable:
\* wait() blocks the caller until a later notify_all(); notify_all() wakes
\* the threads blocked in wait() at that moment and leaves nothing behind
\* for a thread that waits later
NotifyAll(pc) == IF pc = "waiting" THEN "woken" ELSE pc

\* _work: "self._socket.send_multipart(EMPTY_REQUEST, copy=False)"
SubSend ==
    /\ UNCHANGED notSubVars
    /\ UNCHANGED uLock
    /\ UNCHANGED lastVars
    /\ uPc = "send"
    /\ uRecv < MaxRecv
    /\ uPc' = "recv"
    /\ UNCHANGED <<uSize, uCallback, uMessageCallback, uChangesOnly, uLast, uLastRaw,
                   uBuffer, uHeader, uPayload, uMsg, uRecv, uHandled>>
    /\ UNCHANGED appVars

\* _work: "header, payload = self._socket.recv_multipart(copy=False)"
SubRecv(header, payload) ==
    /\ UNCHANGED notSubVars
    /\ UNCHANGED uLock
    /\ UNCHANGED lastVars
    /\ uPc = "recv"
    /\ uPc' = "decode"
    /\ uHeader' = <<header>>
    /\ uPayload' = <<payload>>
    /\ uRecv' = uRecv + 1
    /\ UNCHANGED <<uSize, uCallback, uMessageCallback, uChangesOnly, uLast, uLastRaw,
                   uBuffer, uMsg, uHandled>>
    /\ UNCHANGED appVars

\* _work: "msg = Message.deserialize(header, payload)" and "if msg is None:
\* continue"; an exception leaving deserialize leaves _work and ends the
\* worker thread. Locals no later statement reads are reset to <<>>.
SubDecodeKeepsGoing ==
    /\ UNCHANGED notSubVars
    /\ UNCHANGED uLock
    /\ UNCHANGED lastVars
    /\ uPc = "decode"
    /\ LET r == MessageDeserialize(uHeader[1], uPayload[1]) IN
       /\ uPc' = CASE r.kind = "ok" -> "store"
                   [] r.kind = "none" -> "notify"
                   [] OTHER -> "dead"
       /\ uMsg' = r.val
       /\ uPayload' = IF r.kind = "ok" THEN uPayload ELSE <<>>
    /\ uHeader' = <<>>
    /\ UNCHANGED <<uSize, uCallback, uMessageCallback, uChangesOnly, uLast, uLastRaw,
                   uBuffer, uRecv, uHandled>>
    /\ UNCHANGED appVars

SubDecode ==
    /\ UNCHANGED notSubVars
    /\ UNCHANGED uLock
    /\ UNCHANGED lastVars
    /\ uPc = "decode"
    /\ LET r == MessageDeserialize(uHeader[1], uPayload[1]) IN
       /\ uPc' = CASE r.kind = "ok" -> "store"
                   [] r.kind = "none" -> "send"
                   [] OTHER -> "dead"
       /\ uMsg' = r.val
       /\ uPayload' = IF r.kind = "ok" THEN uPayload ELSE <<>>
    /\ uHeader' = <<>>
    /\ UNCHANGED <<uSize, uCallback, uMessageCallback, uChangesOnly, uLast, uLastRaw,
                   uBuffer, uRecv, uHandled>>
    /\ UNCHANGED appVars

\* _work: "self._last = msg"
SubStore ==
    /\ UNCHANGED notSubVars
    /\ UNCHANGED uLock
    /\ UNCHANGED lastVars
    /\ uPc = "store"
    /\ uLast' = uMsg
    /\ uPc' = "deliver"
    /\ UNCHANGED <<uSize, uCallback, uMessageCallback, uChangesOnly, uLastRaw,
                   uBuffer, uHeader, uPayload, uMsg, uRecv, uHandled>>
    /\ UNCHANGED appVars

\* changes_only: "if len(payload) == len(self._last_raw) and payload ==
\* self._last_raw: propagate = False"
PropagateAlways(payload, lastRaw) == TRUE

Propagate(payload, lastRaw) == lastRaw # <<payload>>

\* _work: the "if self._callback is not None:" branch, or the entry into
\* self._buffer.push(msg)
SubDeliver ==
    /\ UNCHANGED notSubVars
    /\ UNCHANGED lastVars
    /\ uPc = "deliver"
    /\ IF uCallback
       THEN LET propagate == IF uChangesOnly THEN Propagate(uPayload[1], uLastRaw)
                                             ELSE TRUE
            IN /\ uLastRaw' = IF uChangesOnly THEN uPayload ELSE uLastRaw
               /\ uHandled' = Append(uHandled,
                                [payload |-> uPayload[1],
                                 how |-> IF propagate THEN "callback" ELSE "suppressed",
                                 asMessage |-> uMessageCallback, seq |-> uRecv])
               /\ uPc' = "notify"
               /\ UNCHANGED uLock
       ELSE /\ uHandled' = Append(uHandled,
                                [payload |-> uPayload[1], how |-> "buffer",
                                 asMessage |-> TRUE, seq |-> uRecv])
            /\ uPc' = "put"
            /\ uLock' = TRUE
            /\ UNCHANGED uLastRaw
    /\ UNCHANGED <<uSize, uCallback, uMessageCallback, uChangesOnly, uLast,
                   uBuffer, uHeader, uPayload, uMsg, uRecv>>
    /\ UNCHANGED appVars

\* Buffer.push(msg) by the worker: first put
SubPushPut ==
    /\ UNCHANGED notSubVars
    /\ UNCHANGED lastVars
    /\ uPc = "put"
    /\ LET r == QueuePut(uBuffer, uSize, uMsg[1]) IN
       /\ uBuffer' = r.q
       /\ uPc' = IF r.full THEN "evict" ELSE "notify"
       /\ uLock' = r.full
    /\ UNCHANGED <<uSize, uCallback, uMessageCallback, uChangesOnly, uLast, uLastRaw,
                   uHeader, uPayload, uMsg, uRecv, uHandled>>
    /\ UNCHANGED appVars

\* Buffer.push(msg) by the worker: "return self._queue.get(block=False)"
SubPushEvict ==
    /\ UNCHANGED notSubVars
    /\ UNCHANGED lastVars
    /\ uPc = "evict"
    /\ LET r == QueueGet(uBuffer) IN
       /\ uBuffer' = r.q
       /\ uPc' = IF r.empty THEN "again" ELSE "notify"
       /\ uLock' = r.empty
    /\ UNCHANGED <<uSize, uCallback, uMessageCallback, uChangesOnly, uLast, uLastRaw,
                   uHeader, uPayload, uMsg, uRecv, uHandled>>
    /\ UNCHANGED appVars

\* Buffer.push(msg) by the worker: second put; Full would leave _work
SubPushAgain ==
    /\ UNCHANGED notSubVars
    /\ UNCHANGED lastVars
    /\ uPc = "again"
    /\ LET r == QueuePut(uBuffer, uSize, uMsg[1]) IN
       /\ uBuffer' = r.q
       /\ uPc' = IF r.full THEN "dead" ELSE "notify"
       /\ uLock' = FALSE
    /\ UNCHANGED <<uSize, uCallback, uMessageCallback, uChangesOnly, uLast, uLastRaw,
                   uHeader, uPayload, uMsg, uRecv, uHandled>>
    /\ UNCHANGED appVars

\* _work: "self._event_new_message.notify_all()", then the next iteration
SubNotify ==
    /\ UNCHANGED notSubVars
    /\ UNCHANGED uLock
    /\ uPc = "notify"
    /\ uPc' = "send"
    /\ uPayload' = <<>>
    /\ uMsg' = <<>>
    /\ lPc' = NotifyAll(lPc)
    /\ UNCHANGED lOut
    /\ UNCHANGED <<uSize, uCallback, uMessageCallback, uChangesOnly, uLast, uLastRaw,
                   uBuffer, uHeader, uRecv, uHandled>>
    /\ UNCHANGED appVars

workerVars == <<uSize, uChangesOnly, uLast, uLastRaw, uPc, uHeader, uPayload,
                uMsg, uRecv, uHandled>>

\* register_callback: "self._callback = callback"
SubRegisterCallback ==
    /\ UNCHANGED notSubVars
    /\ UNCHANGED uLock
    /\ UNCHANGED lastVars
    /\ aPc = "idle"
    /\ uCallback' = TRUE
    /\ aPc' = "flag"
    /\ UNCHANGED <<uMessageCallback, uBuffer, uGen, uOut, uPulled>>
    /\ UNCHANGED workerVars

\* register_callback: "if message_callback is not None:
\* self._message_callback = message_callback", for the argument `flag`
SubRegisterFlag(flag) ==
    /\ UNCHANGED notSubVars
    /\ UNCHANGED uLock
    /\ UNCHANGED lastVars
    /\ aPc = "flag"
    /\ uMessageCallback' = CASE flag = "true" -> TRUE
                             [] flag = "false" -> FALSE
                             [] OTHER -> uMessageCallback
    /\ aPc' = "idle"
    /\ UNCHANGED <<uCallback, uBuffer, uGen, uOut, uPulled>>
    /\ UNCHANGED workerVars

\* _assert_no_callback
SubAssertNoCallback == ~uCallback

\* .message and .value: _assert_no_callback(), then a blocking pop; the
\* message popped is recorded in uPulled (.value returns its data)
SubAccessMessage(acc) ==
    /\ UNCHANGED notSubVars
    /\ UNCHANGED uLock
    /\ UNCHANGED lastVars
    /\ acc \in {"message", "value"}
    /\ aPc = "idle"
    /\ IF ~SubAssertNoCallback
       THEN uOut' = AccessRaises /\ UNCHANGED <<uBuffer, uPulled>>
       ELSE /\ Len(uBuffer) > 0
            /\ uBuffer' = Tail(uBuffer)
            /\ uPulled' = Append(uPulled, Head(uBuffer))
            /\ uOut' = AccessValue
    /\ UNCHANGED <<uCallback, uMessageCallback, aPc, uGen>>
    /\ UNCHANGED workerVars

\* .messages and __iter__ are generator functions: the access returns a new
\* generator object and runs none of the body
SubAccessGenerator(acc) ==
    /\ UNCHANGED notSubVars
    /\ UNCHANGED uLock
    /\ UNCHANGED lastVars
    /\ acc \in {"messages", "iter"}
    /\ aPc = "idle"
    /\ uGen' = "fresh"
    /\ uOut' = AccessGenerator
    /\ UNCHANGED <<uCallback, uMessageCallback, uBuffer, aPc, uPulled>>
    /\ UNCHANGED workerVars

\* next() on the generator: the first one runs _assert_no_callback(), each
\* one runs the loop body up to the yield (a blocking pop)
SubGeneratorNext ==
    /\ UNCHANGED notSubVars
    /\ UNCHANGED uLock
    /\ UNCHANGED lastVars
    /\ uGen \in {"fresh", "running"}
    /\ aPc = "idle"
    /\ IF uGen = "fresh" /\ ~SubAssertNoCallback
       THEN uOut' = AccessRaises /\ uGen' = "none" /\ UNCHANGED <<uBuffer, uPulled>>
       ELSE /\ Len(uBuffer) > 0
            /\ uBuffer' = Tail(uBuffer)
            /\ uPulled' = Append(uPulled, Head(uBuffer))
            /\ uGen' = "running"
            /\ uOut' = AccessValue
    /\ UNCHANGED <<uCallback, uMessageCallback, aPc>>
    /\ UNCHANGED workerVars

\* .last: "if self._last is NOTHING:"
LastCall ==
    /\ UNCHANGED notSubVars
    /\ UNCHANGED uLock
    /\ lPc = "idle"
    /\ lPc' = IF uLast = <<>> THEN "enter" ELSE "return"
    /\ UNCHANGED lOut
    /\ UNCHANGED workerVars
    /\ UNCHANGED <<uCallback, uMessageCallback, uBuffer>>
    /\ UNCHANGED appVars

\* .last: "with self._event_new_message: self._event_new_message.wait()"
LastWait ==
    /\ UNCHANGED notSubVars
    /\ UNCHANGED uLock
    /\ lPc = "enter"
    /\ lPc' = "waiting"
    /\ UNCHANGED lOut
    /\ UNCHANGED workerVars
    /\ UNCHANGED <<uCallback, uMessageCallback, uBuffer>>
    /\ UNCHANGED appVars

\* .last: "return self._last", at once or after the wait has ended
LastReturn ==
    /\ UNCHANGED notSubVars
    /\ UNCHANGED uLock
    /\ lPc \in {"return", "woken"}
    /\ lOut' = <<[msg |-> uLast[1], waited |-> lPc = "woken"]>>
    /\ lPc' = "done"
    /\ UNCHANGED workerVars
    /\ UNCHANGED <<uCallback, uMessageCallback, uBuffer>>
    /\ UNCHANGED appVars

(* ===================================================================== *)
(*  types.py : Message encoding, SkynetServicePub                         *)
(* ===================================================================== *)

\* values time.time() returns, and timestamps the application gives
Timestamps == {1000, 2000}

\* Message.__init__(timestamp, data): the header is Header(timestamp), whose
\* version defaults to "1.0"
NewMessage(timestamp, data) ==
    [header |-> [timestamp |-> timestamp, version |-> "1.0"], data |-> data]

\* Header.serialize: cbor2.dumps(dataclasses.asdict(self))
HeaderSerializeNoTimestamp(h) ==
    [kind |-> "map", keys |-> {"version"}, timestamp |-> 0, version |-> h.version]

HeaderSerialize(h) ==
    [kind |-> "map", keys |-> {"timestamp", "version"},
     timestamp |-> h.timestamp, version |-> h.version]

\* Message.serialize: the header frame and cbor2.dumps(self.as_dict()), the
\* map of data and of self._version, which is always "1.0"
MessageSerialize(msg) ==
    << HeaderSerialize(msg.header),
       [kind |-> "map", keys |-> {"data", "version"}, data |-> msg.data, version |-> "1.0"] >>

\* an item given to a setter: a Message (.message = Message(timestamp, data))
\* or a bare value (.value = data)
PubItem(isMessage, timestamp, data) ==
    [isMessage |-> isMessage, timestamp |-> timestamp, data |-> data]

PubInit ==
    /\ pSize \in 1..MaxSize
    /\ pBuffer = <<>>
    /\ aSetPc = "idle"
    /\ pSet = <<>>
    /\ pPc = "pop"
    /\ pData = <<>>
    /\ pReq = <<>>
    /\ pAck = FALSE
    /\ pSent = <<>>
    /\ pAcked = 0

\* the publisher as left by a specification that does not run it
PubIdle ==
    /\ PubInit
    /\ pSize = QUEUE_SIZE

pubWorkerVars == <<pPc, pData, pReq, pAck, pSent, pAcked>>

\* the message / value setter: "self._buffer.push(value)", up to the first
\* put; values are numbered in the order they are set
PubSet(isMessage, timestamp) ==
    /\ UNCHANGED notPubVars
    /\ aSetPc = "idle"
    /\ Len(pSet) < MaxSet
    /\ LET item == PubItem(isMessage, IF isMessage THEN timestamp ELSE 0, Len(pSet) + 1)
           r == QueuePut(pBuffer, pSize, item)
       IN /\ pSet' = Append(pSet, item)
          /\ pBuffer' = r.q
          /\ aSetPc' = IF r.full THEN "evict" ELSE "idle"
    /\ UNCHANGED pSize
    /\ UNCHANGED pubWorkerVars

\* Buffer.push by the setter: "return self._queue.get(block=False)"
PubPushEvict ==
    /\ UNCHANGED notPubVars
    /\ aSetPc = "evict"
    /\ LET r == QueueGet(pBuffer) IN
       /\ pBuffer' = r.q
       /\ aSetPc' = IF r.empty THEN "again" ELSE "idle"
    /\ UNCHANGED <<pSize, pSet>>
    /\ UNCHANGED pubWorkerVars

\* Buffer.push by the setter: second put (Full would leave the setter)
PubPushAgain ==
    /\ UNCHANGED notPubVars
    /\ aSetPc = "again"
    /\ pBuffer' = QueuePut(pBuffer, pSize, Last(pSet)).q
    /\ aSetPc' = "idle"
    /\ UNCHANGED <<pSize, pSet>>
    /\ UNCHANGED pubWorkerVars

\* _work: "data = self._buffer.pop()", a blocking get
PubPop ==
    /\ UNCHANGED notPubVars
    /\ pPc = "pop"
    /\ Len(pBuffer) > 0
    /\ pData' = <<Head(pBuffer)>>
    /\ pBuffer' = Tail(pBuffer)
    /\ pPc' = "send"
    /\ UNCHANGED <<pSize, aSetPc, pSet, pReq, pAck, pSent, pAcked>>

\* _work: "(data if isinstance(data, Message) else Message(time.time(),
\* data)).serialize()"
PubEncode(data, now) ==
    IF data.isMessage THEN NewMessage(data.timestamp, data.data)
                      ELSE NewMessage(now, data.data)

\* _work: serialize, then "self._socket.send_multipart((header, raw))"
PubSendThenPop(now) ==
    /\ UNCHANGED notPubVars
    /\ pPc = "send"
    /\ LET msg == PubEncode(pData[1], now) IN
       /\ pReq' = MessageSerialize(msg)
       /\ pSent' = Append(pSent, [msg |-> msg, frames |-> MessageSerialize(msg)])
    /\ pData' = <<>>
    /\ pPc' = "pop"
    /\ UNCHANGED <<pSize, pBuffer, aSetPc, pSet, pAck, pAcked>>

PubSend(now) ==
    /\ UNCHANGED notPubVars
    /\ pPc = "send"
    /\ LET msg == PubEncode(pData[1], now) IN
       /\ pReq' = MessageSerialize(msg)
       /\ pSent' = Append(pSent, [msg |-> msg, frames |-> MessageSerialize(msg)])
    /\ pData' = <<>>
    /\ pPc' = "recv"
    /\ UNCHANGED <<pSize, pBuffer, aSetPc, pSet, pAck, pAcked>>

\* the broker takes the request and answers it
BrokerAck ==
    /\ UNCHANGED notPubVars
    /\ pReq # <<>>
    /\ pReq' = <<>>
    /\ pAck' = TRUE
    /\ UNCHANGED <<pSize, pBuffer, aSetPc, pSet, pPc, pData, pSent, pAcked>>

\* _work: "self._socket.recv_multipart(copy=False)", a blocking receive
PubRecv ==
    /\ UNCHANGED notPubVars
    /\ pPc = "recv"
    /\ pAck
    /\ pAck' = FALSE
    /\ pAcked' = pAcked + 1
    /\ pPc' = "pop"
    /\ UNCHANGED <<pSize, pBuffer, aSetPc, pSet, pData, pReq, pSent>>

(* ===================================================================== *)
(*  types.py : one call of Message.deserialize, statement by statement    *)
(* ===================================================================== *)

\* a header frame together with the CBOR types of the values it holds
\* under timestamp and version
TypedHeader(frame, timestampType, versionType) ==
    [kind |-> frame.kind, keys |-> frame.keys,
     timestamp |-> frame.timestamp, version |-> frame.version,
     timestampType |-> timestampType, versionType |-> versionType]

\* a header frame as Header.serialize writes it
WellFormedHeader ==
    [kind |-> "map", keys |-> {"timestamp", "version"}, timestamp |-> 1000, version |-> "1.0"]

\* header frames given to Message.deserialize: those of HeaderFrames,
\* well-formed ones with another timestamp, another version, no version,
\* and ones whose timestamp is a text string or whose version is an integer
DecodeHeaderFrames ==
    { TypedHeader(h, "float", "str") : h \in
        HeaderFrames \cup
        { [kind |-> "map", keys |-> {"timestamp", "version"}, timestamp |-> 2000, version |-> "1.0"],
          [kind |-> "map", keys |-> {"timestamp", "version"}, timestamp |-> 1000, version |-> "2.0"],
          [kind |-> "map", keys |-> {"timestamp"}, timestamp |-> 1000, version |-> ""] } }
    \cup
    { TypedHeader(WellFormedHeader, "str", "str"),
      TypedHeader(WellFormedHeader, "float", "int"),
      TypedHeader(WellFormedHeader, "str", "int") }

DecInit ==
    /\ dPc = "idle"
    /\ dHeader = <<>>
    /\ dPayload = <<>>
    /\ dOut = <<>>
    /\ dLoads = <<>>

\* "if header is None: return None"
HeaderFailureIgnored(h) == FALSE

HeaderFailure(h) == h.kind = "none"

\* Message.deserialize(header, payload) is called
DeserializeCall(header, payload) ==
    /\ UNCHANGED notDecVars
    /\ dPc \in {"idle", "done"}
    /\ dPc' = "header"
    /\ dHeader' = <<header>>
    /\ dPayload' = <<payload>>
    /\ dOut' = <<>>
    /\ dLoads' = <<>>

\* "header = Header.deserialize(header)" and "if header is None: return None"
DeserializeHeader ==
    /\ UNCHANGED notDecVars
    /\ dPc = "header"
    /\ dLoads' = Append(dLoads, "header")
    /\ IF HeaderFailure(HeaderDeserialize(dHeader[1]))
       THEN dOut' = <<DecodedNone>> /\ dPc' = "done"
       ELSE dOut' = <<>> /\ dPc' = "payload"
    /\ UNCHANGED <<dHeader, dPayload>>

\* the try block: "d = cbor2.loads(payload)" up to the return
DeserializePayload ==
    /\ UNCHANGED notDecVars
    /\ dPc = "payload"
    /\ dLoads' = Append(dLoads, "payload")
    /\ dOut' = <<MessageDeserialize(dHeader[1], dPayload[1])>>
    /\ dPc' = "done"
    /\ UNCHANGED <<dHeader, dPayload>>

(* ===================================================================== *)
(*  proxy/application.py : SkynetApplication.expose, called by            *)
(*  SkynetService.__init__; proxy/node.py : Node.call                     *)
(*  A service instance is the number of its construction.                 *)
(* ===================================================================== *)

\* ServiceType values of the two concrete service classes
ServiceTypes == {"pub", "sub"}

ServiceNames == {"a", "b"}

ServiceKeys == ServiceTypes \X ServiceNames

\* what the node answers to "service/expose"
NodeReplies == {"200", "error", "unreachable"}

\* Node.call: the JSON body on status 200; None on another status and on a
\* connection error
NodeCallUncaught(reply) == IF reply = "200" THEN "json" ELSE "raise"

NodeCall(reply) == IF reply = "200" THEN "json" ELSE "none"

\* "services: Dict[Tuple[str, str], SkynetService] = {}"
ExposeInit ==
    /\ services = [key \in ServiceKeys |-> <<>>]
    /\ created = 0
    /\ construction = <<>>
    /\ nodeReply = "none"

\* expose: "if (service.type.value, service.name) in cls.services:"
NeverExposed(registry, key) == FALSE

AlreadyExposed(registry, key) == registry[key] # <<>>

\* the record of a construction: `raised` is the exception that left the
\* constructor ("none": it returned), `started` whether the concrete class
\* went on to "self._worker.start()", `reply` the node's answer when
\* expose got as far as Node.call ("": it did not)
Constructed(self, key, expose, raised, started, reply) ==
    <<[service |-> self, key |-> key, expose |-> expose, raised |-> raised,
       started |-> started, reply |-> reply]>>

\* SkynetServicePub / SkynetServiceSub (name, data, expose): the base
\* __init__ ends, with expose, in SkynetApplication.expose(self), which
\* raises ValueError or stores the service and calls the node; the
\* subclass then starts the worker thread
Construct(type, name, expose, reply) ==
    /\ UNCHANGED notAppRegVars
    /\ created < MaxServices
    /\ created' = created + 1
    /\ LET key == <<type, name>>
           self == created + 1
       IN IF ~expose
          THEN /\ construction' = Constructed(self, key, FALSE, "none", TRUE, "")
               /\ UNCHANGED <<services, nodeReply>>
          ELSE IF AlreadyExposed(services, key)
          THEN /\ construction' = Constructed(self, key, TRUE, "ValueError", FALSE, "")
               /\ UNCHANGED <<services, nodeReply>>
          ELSE /\ services' = [services EXCEPT ![key] = <<self>>]
               /\ nodeReply' = NodeCall(reply)
               /\ construction' =
                     IF NodeCall(reply) = "raise"
                     THEN Constructed(self, key, TRUE, "RequestException", FALSE, reply)
                     ELSE Constructed(self, key, TRUE, "none", TRUE, reply)

(* ===================================================================== *)
(*  types.py : SkynetInteraction.send, called by NumSenders threads       *)
(* ===================================================================== *)

Senders == 1..NumSenders

\* "self._lock: Semaphore = Semaphore()"
InteractInit ==
    /\ iLock = 0
    /\ iPc = [t \in Senders |-> "idle"]

\* send: "raw = cbor2.dumps(data)", up to the entry of "with self._lock:"
InteractSend(t) ==
    /\ UNCHANGED notInteractVars
    /\ iPc[t] = "idle"
    /\ iPc' = [iPc EXCEPT ![t] = "acquire"]
    /\ UNCHANGED iLock

\* send: "with self._lock:" entered, the thread is now inside
\* "self._socket.send(raw)", which blocks until the socket takes the bytes
InteractSendUnlocked(t) ==
    /\ UNCHANGED notInteractVars
    /\ iPc[t] = "acquire"
    /\ iPc' = [iPc EXCEPT ![t] = "send"]
    /\ UNCHANGED iLock

InteractAcquire(t) ==
    /\ UNCHANGED notInteractVars
    /\ iPc[t] = "acquire"
    /\ iLock = 0
    /\ iLock' = t
    /\ iPc' = [iPc EXCEPT ![t] = "send"]

\* send: "self._socket.send(raw)" returns and the with-block is left
InteractSent(t) ==
    /\ UNCHANGED notInteractVars
    /\ iPc[t] = "send"
    /\ iLock' = IF iLock = t THEN 0 ELSE iLock
    /\ iPc' = [iPc EXCEPT ![t] = "idle"]

(* ===================================================================== *)
(*  specifications                                                        *)
(* ===================================================================== *)
vars == <<bufVars, syncVars, subVars, pubVars, decVars, appRegVars, interactVars>>

NextBuffer ==
    \/ PushAcquire
    \/ PushPut
    \/ PushEvict
    \/ PushAgain
    \/ \E mode \in PopModes : PopCall(mode)
    \/ PopTake
    \/ PopTimeout

InitBuffer ==
    /\ BufferInit
    /\ SyncInit(FALSE, FALSE)
    /\ SubIdle
    /\ PubIdle
    /\ DecInit
    /\ ExposeInit
    /\ InteractInit

SpecBuffer == InitBuffer /\ [][NextBuffer]_vars

NextSync ==
    \/ \E index \in Services : InternalCallback(index)
    \/ \E acc \in Accessors : SyncAccessMessage(acc)
    \/ \E acc \in Accessors : SyncAccessGenerator(acc)
    \/ SyncGeneratorNext

InitSync ==
    /\ \E callback, messageCallback \in BOOLEAN : SyncInit(callback, messageCallback)
    /\ BufferInit /\ bSize = 1
    /\ SubIdle
    /\ PubIdle
    /\ DecInit
    /\ ExposeInit
    /\ InteractInit

SpecSync == InitSync /\ [][NextSync]_vars

NextSub ==
    \/ SubSend
    \/ \E header \in HeaderFrames, payload \in PayloadFrames : SubRecv(header, payload)
    \/ SubDecode
    \/ SubStore
    \/ SubDeliver
    \/ SubPushPut
    \/ SubPushEvict
    \/ SubPushAgain
    \/ SubNotify
    \/ SubRegisterCallback
    \/ \E flag \in {"true", "false", "none"} : SubRegisterFlag(flag)
    \/ \E acc \in Accessors : SubAccessMessage(acc)
    \/ \E acc \in Accessors : SubAccessGenerator(acc)
    \/ SubGeneratorNext

InitSub ==
    /\ SubInit
    /\ BufferInit /\ bSize = 1
    /\ SyncInit(FALSE, FALSE)
    /\ PubIdle
    /\ DecInit
    /\ ExposeInit
    /\ InteractInit

SpecSub == InitSub /\ [][NextSub]_vars

\* subscribers constructed with any queue_size, without change filtering
InitSubQueue ==
    /\ SubInitWith(1..MaxSize)
    /\ ~uChangesOnly /\ ~uMessageCallback
    /\ BufferInit /\ bSize = 1
    /\ SyncInit(FALSE, FALSE)
    /\ PubIdle
    /\ DecInit
    /\ ExposeInit
    /\ InteractInit

\* the worker, register_callback, and pulls through .message / .value
NextSubQueue ==
    \/ SubSend
    \/ \E header \in HeaderFrames, payload \in PayloadFrames : SubRecv(header, payload)
    \/ SubDecode
    \/ SubStore
    \/ SubDeliver
    \/ SubPushPut
    \/ SubPushEvict
    \/ SubPushAgain
    \/ SubNotify
    \/ SubRegisterCallback
    \/ \E flag \in {"true", "false", "none"} : SubRegisterFlag(flag)
    \/ \E acc \in Accessors : SubAccessMessage(acc)

SpecSubQueue == InitSubQueue /\ [][NextSubQueue]_vars

NextLast ==
    \/ SubSend
    \/ \E header \in HeaderFrames, payload \in PayloadFrames : SubRecv(header, payload)
    \/ SubDecode
    \/ SubStore
    \/ SubDeliver
    \/ SubPushPut
    \/ SubPushEvict
    \/ SubPushAgain
    \/ SubNotify
    \/ \E acc \in Accessors : SubAccessMessage(acc)
    \/ LastCall
    \/ LastWait
    \/ LastReturn

InitLast ==
    /\ SubInit
    /\ BufferInit /\ bSize = 1
    /\ SyncInit(FALSE, FALSE)
    /\ PubIdle
    /\ DecInit
    /\ ExposeInit
    /\ InteractInit

SpecLast == InitLast /\ [][NextLast]_vars

\* the subscriber's worker, pulls through .message / .value, and the
\* threads in SkynetInteraction.send
NextInteract ==
    \/ SubSend
    \/ \E header \in HeaderFrames, payload \in PayloadFrames : SubRecv(header, payload)
    \/ SubDecode
    \/ SubStore
    \/ SubDeliver
    \/ SubPushPut
    \/ SubPushEvict
    \/ SubPushAgain
    \/ SubNotify
    \/ \E acc \in Accessors : SubAccessMessage(acc)
    \/ \E t \in Senders : InteractSend(t)
    \/ \E t \in Senders : InteractAcquire(t)
    \/ \E t \in Senders : InteractSent(t)

InitInteract ==
    /\ SubIdle
    /\ InteractInit
    /\ BufferInit /\ bSize = 1
    /\ SyncInit(FALSE, FALSE)
    /\ PubIdle
    /\ DecInit
    /\ ExposeInit

SpecInteract == InitInteract /\ [][NextInteract]_vars

NextPub ==
    \/ \E isMessage \in BOOLEAN, timestamp \in Timestamps : PubSet(isMessage, timestamp)
    \/ PubPushEvict
    \/ PubPushAgain
    \/ PubPop
    \/ \E now \in Timestamps : PubSend(now)
    \/ BrokerAck
    \/ PubRecv

InitPub ==
    /\ PubInit
    /\ BufferInit /\ bSize = 1
    /\ SyncInit(FALSE, FALSE)
    /\ SubIdle
    /\ DecInit
    /\ ExposeInit
    /\ InteractInit

SpecPub == InitPub /\ [][NextPub]_vars

\* the same with every thread scheduled: a setter that is inside push goes
\* on, the worker takes every step it can take, and the broker answers
\* every request (the application is free to stop setting values)
SpecPubLive ==
    /\ InitPub
    /\ [][NextPub]_vars
    /\ WF_vars(PubPushEvict \/ PubPushAgain)
    /\ WF_vars(PubPop)
    /\ WF_vars(\E now \in Timestamps : PubSend(now))
    /\ WF_vars(BrokerAck)
    /\ WF_vars(PubRecv)

NextDecode ==
    \/ \E header \in DecodeHeaderFrames, payload \in PayloadFrames :
          DeserializeCall(header, payload)
    \/ DeserializeHeader
    \/ DeserializePayload

InitDecode ==
    /\ DecInit
    /\ BufferInit /\ bSize = 1
    /\ SyncInit(FALSE, FALSE)
    /\ SubIdle
    /\ PubIdle
    /\ ExposeInit
    /\ InteractInit

SpecDecode == InitDecode /\ [][NextDecode]_vars

NextExpose ==
    \E type \in ServiceTypes, name \in ServiceNames, expose \in BOOLEAN, reply \in NodeReplies :
        Construct(type, name, expose, reply)

InitExpose ==
    /\ ExposeInit
    /\ BufferInit /\ bSize = 1
    /\ SyncInit(FALSE, FALSE)
    /\ SubIdle
    /\ PubIdle
    /\ DecInit
    /\ InteractInit

SpecExpose == InitExpose /\ [][NextExpose]_vars

(* ===================================================================== *)
(*  properties of Buffer (checked under SpecBuffer)                       *)
(* ===================================================================== *)

\* C1: after bSize+1 pushes and no pop call at all, the buffer holds exactly
\* the bSize most recently pushed items in push order (only the oldest push
\* is gone); with capacity 1, push(a); push(b) leaves b to be popped.
CapacityKeepsMostRecent ==
    (wpc = "idle" /\ popCalls = 0 /\ Len(pushedSeq) = bSize + 1)
        => bQueue = SubSeq(pushedSeq, 2, bSize + 1)

\* C2: once a push has returned (and no later push is under way), the item
\* it pushed is still in the buffer or has been returned by a pop.
MostRecentNeverLost ==
    (wpc = "idle" /\ pushedSeq # <<>>)
        => Last(pushedSeq) \in Range(bQueue) \cup Range(poppedSeq)

\* C3: push and pop never deadlock: a writer can always enter push and take
\* the next step of a push it is in, whatever the reader is doing, and a
\* reader blocked in pop can return as soon as the buffer holds an item.
PushPopNeverDeadlock ==
    /\ (wpc = "idle" /\ Len(pushedSeq) < MaxPush) => ENABLED PushAcquire
    /\ wpc # "idle" => ENABLED (PushPut \/ PushEvict \/ PushAgain)
    /\ (rpc = "waiting" /\ Len(bQueue) > 0) => ENABLED PopTake

\* a writer in the middle of a push on a full buffer while the reader is
\* blocked in pop
WriterAndReaderInside ==
    wpc = "evict" /\ rpc = "waiting" /\ Len(bQueue) = bSize

\* C4: a pop with block=False, or with a timeout, that returns while the
\* buffer is empty returns None (it does not raise) and leaves the buffer
\* empty.
PopOnEmptyReturnsNone ==
    [][ ( /\ bQueue = <<>>
          /\ \/ popCalls' = popCalls + 1 /\ rMode' = "nonblock"
             \/ rpc = "waiting" /\ rMode = "timeout" /\ rpc' = "idle" )
        => (rOut'.kind = "none" /\ bQueue' = <<>>) ]_vars

\* a pop with a timeout has returned None on an empty buffer
TimedOutPopReturnedNone ==
    /\ popCalls > 0 /\ rpc = "idle" /\ rMode = "timeout"
    /\ rOut.kind = "none" /\ bQueue = <<>>

(* ===================================================================== *)
(*  properties of SimpleServicesSynchronizer (checked under SpecSync)     *)
(* ===================================================================== *)

\* C5: whatever the order in which the streams deliver their first message,
\* nothing is emitted before the last missing stream arrives, and the step
\* in which it arrives emits exactly one joined tuple whose j-th element is
\* the message (or its data) of stream j: stream order, not arrival order.
FirstRoundOrderedByStream ==
    [][ (\E i \in Services :
            /\ sDelivered[i] = 0 /\ sDelivered'[i] = 1
            /\ \A j \in Services \ {i} : sDelivered[j] >= 1)
        => /\ sEmits = <<>>
           /\ Len(sEmits') = 1
           /\ sEmits'[1] = [j \in Services |->
                              IF sCallback /\ ~sMessageCallback
                              THEN <<sLast'[j][1].data>> ELSE sLast'[j]] ]_vars

\* the first round was emitted after the streams arrived as 2, 1, 3 (the
\* source's streams 1, 0, 2)
EmittedAfterOutOfOrderArrival ==
    /\ Len(sEmits) = 1
    /\ Len(sArrival) >= 3 /\ SubSeq(sArrival, 1, 3) = <<2, 1, 3>>

\* C6: after an emission the synchronizer starts the next round: the slot
\* vector is again NumServices empty slots with a count of 0 until a stream
\* delivers, and the round is emitted again as soon as every stream has
\* delivered since the last emission (so some stream always has not).
SynchronizerRestartsRound ==
    /\ (sEmits # <<>> /\ \A i \in Services : sSince[i] = 0)
          => (sPartial = EmptySlots /\ sCounter = 0)
    /\ \E i \in Services : sSince[i] = 0

\* C18: between two runs of _internal_callback the slot vector has one slot
\* per stream, the count is the number of filled slots, and the count is at
\* least 0 and below the number of streams.
SlotVectorInvariant ==
    /\ Len(sPartial) = NumServices
    /\ sCounter = Cardinality({i \in 1..Len(sPartial) : sPartial[i] # <<>>})
    /\ sCounter >= 0 /\ sCounter < NumServices

\* C19: the count is the number of streams that have delivered since the
\* last emission, however many messages each of them delivered (only the
\* first message of a stream in a round is counted), and an emitted tuple
\* holds for every stream the most recent message it delivered.
LastValueWinsPerStream ==
    [][ /\ Len(sPartial') = NumServices
           => sCounter' = Cardinality({i \in Services : sSince'[i] >= 1})
        /\ Len(sEmits') > Len(sEmits)
           => Last(sEmits') = [j \in Services |->
                                 IF sCallback /\ ~sMessageCallback
                                 THEN <<sLast'[j][1].data>> ELSE sLast'[j]] ]_vars

\* stream 1 delivered twice and stream 2 three times before stream 3
\* completed the round: the tuple holds their latest messages
EmittedLatestOfEachStream ==
    /\ Len(sEmits) = 1
    /\ ~sCallback
    /\ sEmits[1] = << <<StreamMessage(1, 2)>>, <<StreamMessage(2, 3)>>,
                     <<StreamMessage(3, 1)>> >>

\* C20: a tuple is emitted only by the delivery that makes every stream
\* have delivered since the last emission (all others already have),
\* whatever the order in which the workers run _internal_callback; the
\* tuple has one element per stream and none is an empty slot.
EmitsOnlyCompleteRounds ==
    [][ Len(sEmits') > Len(sEmits)
        => /\ \A j \in Services : sSince[j] >= 1 \/ sDelivered'[j] = sDelivered[j] + 1
           /\ Len(sEmits') = Len(sEmits) + 1
           /\ Len(Last(sEmits')) = NumServices
           /\ \A j \in 1..Len(Last(sEmits')) : Last(sEmits')[j] # <<>> ]_vars

\* a round emitted to a value callback after the streams arrived in
\* reverse order, stream 3 having delivered all its messages first
EmittedAfterEveryStream ==
    /\ Len(sEmits) = 1
    /\ sCallback /\ ~sMessageCallback
    /\ sArrival = <<3, 2, 1>>
    /\ sDelivered[3] = MaxMsgs

\* C9: on a synchronizer constructed with a callback every pull access
\* raises at the access, and the output buffer keeps what it holds.
SyncPullAlwaysRaises ==
    /\ (sCallback /\ sOut # NoAccess) => sOut = AccessRaises
    /\ sCallback => sBuffer = <<>>

(* ===================================================================== *)
(*  properties of SkynetServiceSub (checked under SpecSub)                *)
(* ===================================================================== *)

\* C7 as stated: with changes_only, a decoded message handled in callback
\* mode invokes the callback if and only if its payload bytes differ from
\* those of the previous decoded message (the first one has none before it).
ChangesOnlyComparesPreviousDecoded ==
    \A k \in 1..Len(uHandled) :
        (uChangesOnly /\ uHandled[k].how # "buffer")
            => (uHandled[k].how = "callback"
                  <=> (k = 1 \/ uHandled[k].payload # uHandled[k - 1].payload))

\* C7 as amended: the payload is compared with that of the previous decoded
\* message that was itself handled in callback mode; a message without one
\* (the first, or the first after register_callback on a subscriber that
\* was in pull mode) invokes the callback.
ChangesOnlyComparesPreviousCallback ==
    \A k \in 1..Len(uHandled) :
        (uChangesOnly /\ uHandled[k].how # "buffer")
            => (uHandled[k].how = "callback"
                  <=> \/ k = 1
                      \/ uHandled[k - 1].how = "buffer"
                      \/ uHandled[k].payload # uHandled[k - 1].payload)

\* two equal payloads then a different one, all in callback mode: the
\* callback ran for the first and the third
RepeatSuppressedThenChangeDelivered ==
    /\ uChangesOnly
    /\ Len(uHandled) = 3
    /\ uHandled[1].how = "callback"
    /\ uHandled[2].how = "suppressed" /\ uHandled[2].payload = uHandled[1].payload
    /\ uHandled[3].how = "callback" /\ uHandled[3].payload # uHandled[2].payload

\* C8: while a callback is registered, every pull access (.message, .value,
\* .messages, iteration) raises at the access and removes nothing from the
\* buffer.
SubPullAlwaysRaises ==
    [][ (uCallback /\ <<uGen, uOut, uPulled>>' # <<uGen, uOut, uPulled>>)
        => (uOut' = AccessRaises /\ uPulled' = uPulled) ]_vars

\* a reply the wire format allows: a header map of exactly timestamp and
\* version, a payload map of exactly data and version, version tag "1.0"
ValidReply(header, payload) ==
    /\ header.kind = "map" /\ header.keys = {"timestamp", "version"}
    /\ payload.kind = "map" /\ payload.keys = {"data", "version"}
    /\ payload.version = "1.0"

\* C10: whatever makes a reply undecodable (malformed header, malformed
\* payload, version tag other than "1.0"), the worker drops it and goes on
\* with the next request: it never ends because of a bad message.
BadReplyIsDropped ==
    [][ (uPc = "decode" /\ uPc' # "decode" /\ ~ValidReply(uHeader[1], uPayload[1]))
        => uPc' = "send" ]_vars

\* the decoded messages the worker gave to the buffer, by their data
BufferedData ==
    LET b == SelectSeq(uHandled, LAMBDA h : h.how = "buffer")
    IN [k \in 1..Len(b) |-> b[k].payload.data]

\* C14 (under SpecSubQueue): the worker hands decoded messages on, to the
\* callback or to the buffer, in the order the replies were received and
\* each reply at most once; the messages pull accesses have returned are,
\* in order, a subsequence of those given to the buffer (some may be
\* missing, none is out of order or returned twice).
DeliveryPreservesOrder ==
    /\ \A j, k \in 1..Len(uHandled) : j < k => uHandled[j].seq < uHandled[k].seq
    /\ IsSubsequence([k \in 1..Len(uPulled) |-> uPulled[k].data], BufferedData)

\* two different messages were buffered and pulled in that order, then a
\* third went to a callback registered afterwards
PulledInOrderThenCallback ==
    /\ Len(uHandled) = 3
    /\ uHandled[1].how = "buffer" /\ uHandled[2].how = "buffer"
    /\ uHandled[1].payload # uHandled[2].payload
    /\ uHandled[3].how = "callback"
    /\ Len(uPulled) = 2
    /\ uPulled[1].data = uHandled[1].payload.data
    /\ uPulled[2].data = uHandled[2].payload.data
    /\ Len(uBuffer) = 0 /\ uSize = 2

\* the worker is between "self._last = msg" and notify_all() for a message
BeforeNotify == uPc \in {"deliver", "put", "evict", "again", "notify"}

\* C16 (under SpecLast): a decoded message is the subscriber's last message
\* from its store on, and the worker ends only while decoding, never
\* between the store and notify_all(); a caller of .last that found no
\* message is not left waiting once the first decoded message has been
\* notified, and the message .last returns after a wait is that first one.
LastWokenByFirstMessage ==
    /\ BeforeNotify => uLast = uMsg
    /\ uPc = "dead" => uMsg = <<>>
    /\ lPc = "waiting" => \/ uHandled = <<>>
                          \/ Len(uHandled) = 1 /\ BeforeNotify
    /\ (lPc = "done" /\ lOut[1].waited) => lOut[1].msg.data = uHandled[1].payload.data

\* the reply the worker is about to decode does not decode to a Message
DecodeFails == MessageDeserialize(uHeader[1], uPayload[1]).kind # "ok"

\* C21 (under SpecLast): the step in which the worker finds that a reply
\* does not decode leaves _last, the buffer, _last_raw and the record of
\* callbacks as they are and wakes no waiter, and the worker goes straight
\* to the next request (or ends): it passes neither the store, nor the
\* callback, nor the push, nor notify_all().
FailedDecodeChangesNothing ==
    [][ (uPc = "decode" /\ uPc' # "decode" /\ DecodeFails)
        => /\ UNCHANGED <<uLast, uBuffer, uLastRaw, uHandled, lPc, lOut, uPulled>>
           /\ uPc' \in {"send", "dead"} ]_vars

\* the second reply did not decode: the first message is still the last
\* one, its bytes are still the previous payload, and a caller of .last
\* that missed the first notify_all() is still waiting
FailedDecodeKeptState ==
    /\ uRecv = 2 /\ uPc = "send"
    /\ Len(uHandled) = 1 /\ uHandled[1].seq = 1
    /\ uLast # <<>> /\ uLastRaw = <<uHandled[1].payload>>
    /\ lPc = "waiting"

\* the subscriber's worker is at or inside a blocking transport call
\* (send_multipart, recv_multipart)
WorkerInTransport == uPc \in {"send", "recv"}

\* C22 as stated (under SpecInteract): a thread inside a blocking transport
\* send or receive holds no lock: not the buffer lock, not the lock of
\* SkynetInteraction.send.
NoLockAcrossTransport ==
    /\ WorkerInTransport => ~uLock
    /\ \A t \in Senders : iPc[t] = "send" => iLock # t

\* C22 as amended: the worker holds the buffer lock only inside push and
\* never at a transport call; the lock of SkynetInteraction.send is held
\* by exactly the thread that is inside the socket send, so across that
\* send and across nothing else, and by one thread at a time.
OnlySendLockAcrossSend ==
    /\ WorkerInTransport => ~uLock
    /\ uLock => uPc \in {"put", "evict", "again"}
    /\ \A t \in Senders : iPc[t] = "send" <=> iLock = t

\* sender 1 is inside the socket send holding the lock, sender 2 waits for
\* the lock, and the worker is inside push holding the buffer lock
SenderHoldsLockInSend ==
    /\ iPc[1] = "send" /\ iLock = 1
    /\ iPc[2] = "acquire"
    /\ uLock /\ uPc = "evict"

(* ===================================================================== *)
(*  properties of Message encoding and SkynetServicePub (under SpecPub)   *)
(* ===================================================================== *)

\* C11: decoding the two frames Message.serialize produced for a message
\* yields a Message, not None and not an exception, with the timestamp and
\* the data of the message that was encoded.
MessageRoundTrip ==
    \A k \in 1..Len(pSent) :
        LET r == MessageDeserialize(pSent[k].frames[1], pSent[k].frames[2]) IN
        /\ r.kind = "ok"
        /\ r.val[1].header.timestamp = pSent[k].msg.header.timestamp
        /\ r.val[1].data = pSent[k].msg.data

\* a Message given to the setter and a bare value wrapped by the worker have
\* both been encoded, with different timestamps and data
EncodedMessageAndValue ==
    /\ Len(pSent) >= 2
    /\ pSent[1].msg = NewMessage(2000, 1)
    /\ pSent[2].msg = NewMessage(1000, 2)
    /\ pSet[1].isMessage /\ ~pSet[2].isMessage

\* C15: the worker sends a request, and pops an item, only when every
\* request it sent before has had its acknowledgement received: requests
\* and acknowledgements strictly alternate, and between a send and the
\* receive of its acknowledgement the worker pops nothing.
RequestAckAlternate ==
    [][ /\ Len(pSent') > Len(pSent) => pAcked = Len(pSent)
        /\ (pData = <<>> /\ pData' # <<>>) => pAcked = Len(pSent)
        /\ pAcked' > pAcked => (pAcked' = Len(pSent) /\ pPc = "recv") ]_vars

\* the second request is out and not yet acknowledged, and the next item
\* waits in the buffer for the worker
WaitingForSecondAck ==
    /\ Len(pSent) = 2 /\ pAcked = 1
    /\ pPc = "recv" /\ ~pAck
    /\ Len(pBuffer) > 0

\* the worker has sent a message carrying the k-th value set
ValueSent(k) == \E j \in 1..Len(pSent) : pSent[j].msg.data = k

\* C17 (under SpecPubLive): if the k-th value is the last one the
\* application sets (its setter has returned and no value is set after
\* it), the worker eventually sends a message carrying it.
LastValueEventuallySent ==
    \A k \in 1..MaxSet :
        (<>[](Len(pSet) = k /\ aSetPc = "idle")) => <>ValueSent(k)

(* ===================================================================== *)
(*  properties of Message.deserialize (checked under SpecDecode)          *)
(* ===================================================================== *)

\* the header frame is a map without the required field timestamp
HeaderLacksField(header) == header.kind = "map" /\ "timestamp" \notin header.keys

\* C12: a call whose header frame lacks a required field returns None, it
\* does not raise, and the only frame it decoded is the header: the payload
\* frame is never given to the decoder, whatever it holds.
HeaderFailureShortCircuits ==
    (dPc = "done" /\ HeaderLacksField(dHeader[1]))
        => (dOut = <<DecodedNone>> /\ dLoads = <<"header">>)

\* a call returned None for a header without timestamp although decoding
\* its payload (a CBOR integer, or a map tagged "2.0") would raise
ShortCircuitOnRaisingPayload ==
    /\ dPc = "done" /\ HeaderLacksField(dHeader[1])
    /\ dOut = <<DecodedNone>>
    /\ \/ dPayload[1].kind = "int"
       \/ dPayload[1].kind = "map" /\ dPayload[1].version = "2.0"

(* ===================================================================== *)
(*  properties of SkynetApplication.expose (checked under SpecExpose)     *)
(* ===================================================================== *)

\* C13: a construction with expose under a (type, name) that is already in
\* the registry raises ValueError and leaves the registry as it was (the
\* first instance stays); under a (type, name) that is not in it, whether
\* or not the name is registered for another type, it does not raise and
\* the registry maps that (type, name) to the new service.
DuplicateExposeRaises ==
    [][ (created' = created + 1 /\ construction'[1].expose)
        => LET key == construction'[1].key IN
           IF services[key] # <<>>
           THEN construction'[1].raised = "ValueError" /\ services' = services
           ELSE /\ construction'[1].raised = "none"
                /\ services' = [services EXCEPT ![key] = <<created'>>] ]_vars

\* pub "a" and sub "a" are both registered, and a second pub "a" raised
SecondSameKindRejected ==
    /\ services[<<"pub", "a">>] = <<1>>
    /\ services[<<"sub", "a">>] = <<2>>
    /\ created = 3
    /\ construction[1].key = <<"pub", "a">> /\ construction[1].raised = "ValueError"

\* C24: a call whose header frame is a map holding a timestamp that is not
\* a float, or a version that is not a string, returns None.
HeaderTypesValidated ==
    (/\ dPc = "done"
     /\ dHeader[1].kind = "map"
     /\ dHeader[1].timestampType # "float" \/ dHeader[1].versionType # "str")
        => dOut = <<DecodedNone>>

\* C23: a construction whose registration call fails (the node is
\* unreachable or answers with another status than 200) gets None from
\* Node.call, nothing is raised, the constructor returns, the service is in
\* the registry and its worker thread is started.
FailedRegistrationNotFatal ==
    (construction # <<>> /\ construction[1].reply \in {"error", "unreachable"})
        => /\ nodeReply = "none"
           /\ construction[1].raised = "none"
           /\ construction[1].started
           /\ services[construction[1].key] = <<construction[1].service>>

\* the second service was constructed while the node was unreachable, after
\* a first one the node had accepted
RegisteredWithoutNode ==
    /\ created = 2
    /\ construction[1].reply = "unreachable" /\ construction[1].started
    /\ services[<<"pub", "a">>] = <<1>>
    /\ services[<<"sub", "b">>] = <<2>>
    /\ nodeReply = "none"

=============================================================================
